---- MODULE Spec2Model ----
(***************************************************************************)
(* Model of rmk's layered keymap (rmk/src/keymap.rs) and of its rotary     *)
(* encoder decoder (rmk/src/input_device/rotary_encoder.rs).               *)
(*                                                                         *)
(* SpecKeyMap  : a KeyMap<ROW, COL, NUM_LAYER> driven by arbitrary calls   *)
(*               of get_action, activate_layer and deactivate_layer.       *)
(* SpecDecoder : a RotaryEncoder sampled by arbitrary calls of update,     *)
(*               with arbitrary (fallible) pin readings.                   *)
(* SpecPhase   : DefaultPhase::direction called on arbitrary 4-bit codes.  *)
(* SpecTasks   : several RotaryEncoder::run tasks sending into the one     *)
(*               KEY_EVENT_CHANNEL, and its receiver.                      *)
(* SpecTapFair : one run task under fair scheduling, with other producers  *)
(*               sending into the channel and the receiver draining it.    *)
(***************************************************************************)
EXTENDS Integers, Sequences, FiniteSets

(***************************************************************************)
(* Dimensions of the keymap instantiation that is checked.                 *)
(***************************************************************************)
ROW ==
    1

COL ==
    2

NUM_LAYER ==
    2

Rows == 0 .. (ROW - 1)

Cols == 0 .. (COL - 1)

Layers == 0 .. (NUM_LAYER - 1)

(* layer_num arguments tried by the callers: every valid index, the first  *)
(* invalid one (NUM_LAYER) and the one after it.                           *)
LayerNums == 0 .. (NUM_LAYER + 1)

(***************************************************************************)
(* KeyAction.  No and Transparent are the two distinguished members; the   *)
(* concrete actions are Key(n).                                            *)
(***************************************************************************)
No == [kind |-> "No", code |-> 0]

Transparent == [kind |-> "Transparent", code |-> 0]

Key(n) == [kind |-> "Key", code |-> n]

(* Value "returned" by the operations that return nothing. *)
Unit == [kind |-> "Unit", code |-> 0]

(* Marker of the history variable surfaced: no release surfaced an action. *)
Nothing == [kind |-> "Nothing", code |-> 0]

(* The keymaps supplied to KeyMap::new: every cell of layer l is No,       *)
(* Transparent or the concrete action Key(l), so that a concrete action    *)
(* shows which layer supplied it.                                          *)
ActionMaps == [Layers -> [Rows -> [Cols -> {"No", "Transparent", "Key"}]]]

ActionMapOf(m) ==
    [l \in Layers |-> [r \in Rows |-> [c \in Cols |->
        IF m[l][r][c] = "No" THEN No
        ELSE IF m[l][r][c] = "Transparent" THEN Transparent
        ELSE Key(l)]]]

VARIABLES
    layers,         \* KeyMap.layers
    layer_state,    \* KeyMap.layer_state
    default_layer,  \* KeyMap.default_layer
    layer_cache,    \* KeyMap.layer_cache
    op,             \* history: the last KeyMap operation called, with its arguments
    result,         \* history: what that operation returned
    surfaced,       \* history: per position, the last concrete action a release returned
    state,          \* RotaryEncoder.state
    phase,          \* RotaryEncoder.phase (which classifier is held)
    samples,        \* history: the calls of update made so far
    classified,     \* history: the calls of DefaultPhase::direction made so far
    async_matrix,   \* whether the build has feature "async_matrix"
    task,           \* per run task: the await it is at, its encoder's state, its locals
    queue,          \* KEY_EVENT_CHANNEL, each event tagged with the task that sent it
    sent,           \* history: per task, the events it has sent
    dirs            \* history: per task, the directions its update calls returned

kmVars == <<layers, layer_state, default_layer, layer_cache, op, result, surfaced>>

encVars == <<state, phase, samples>>

phVars == <<classified>>

taskVars == <<async_matrix, task, queue, sent, dirs>>

vars == <<layers, layer_state, default_layer, layer_cache, op, result, surfaced,
          state, phase, samples, classified, async_matrix, task, queue, sent, dirs>>

(***************************************************************************)
(* KeyMap                                                                  *)
(***************************************************************************)

(* action == KeyAction::Transparent || action == KeyAction::No *)
IsSkippedOnlyTransparent(action) ==
    action = Transparent

IsSkipped(action) ==
    action = Transparent \/ action = No

(* self.layers.iter().rev().enumerate(): the layer yielded together with   *)
(* the enumerate index layer_idx.                                          *)
RevLayer(layer_idx) ==
    NUM_LAYER - 1 - layer_idx

get_layer_from_cache_default(cache, row, col) ==
    0

get_layer_from_cache(cache, row, col) ==
    cache[row][col]

save_layer_cache_true_layer(cache, row, col, layer_num) ==
    [cache EXCEPT ![row][col] = NUM_LAYER - 1 - layer_num]

save_layer_cache_one_based(cache, row, col, layer_num) ==
    [cache EXCEPT ![row][col] = layer_num + 1]

save_layer_cache_other_col(cache, row, col, layer_num) ==
    [cache EXCEPT ![row][(col + 1) % COL] = layer_num]

save_layer_cache(cache, row, col, layer_num) ==
    [cache EXCEPT ![row][col] = layer_num]

(* The release loop of get_action from enumerate index layer_idx on: the   *)
(* index at which it returns, or NUM_LAYER when the loop runs to its end.  *)
RECURSIVE ScanFrom_flag_of_layer(_, _, _, _, _)
ScanFrom_flag_of_layer(lyrs, lstate, row, col, layer_idx) ==
    IF layer_idx >= NUM_LAYER THEN NUM_LAYER
    ELSE IF lstate[RevLayer(layer_idx)] /\ ~IsSkipped(lyrs[RevLayer(layer_idx)][row][col])
         THEN layer_idx
         ELSE ScanFrom_flag_of_layer(lyrs, lstate, row, col, layer_idx + 1)

RECURSIVE ScanFrom(_, _, _, _, _)
ScanFrom(lyrs, lstate, row, col, layer_idx) ==
    IF layer_idx >= NUM_LAYER THEN NUM_LAYER
    ELSE IF lstate[layer_idx] /\ ~IsSkipped(lyrs[RevLayer(layer_idx)][row][col])
         THEN layer_idx
         ELSE ScanFrom(lyrs, lstate, row, col, layer_idx + 1)

(* The value get_action returns. *)
get_action_result(lyrs, lstate, cache, row, col, pressed) ==
    IF pressed
    THEN lyrs[get_layer_from_cache(cache, row, col)][row][col]
    ELSE LET idx == ScanFrom(lyrs, lstate, row, col, 0)
         IN  IF idx < NUM_LAYER THEN lyrs[RevLayer(idx)][row][col] ELSE No

(* The layer_cache get_action leaves behind. *)
get_action_cache(lyrs, lstate, cache, row, col, pressed) ==
    IF pressed
    THEN cache
    ELSE LET idx == ScanFrom(lyrs, lstate, row, col, 0)
         IN  IF idx < NUM_LAYER THEN save_layer_cache(cache, row, col, idx) ELSE cache

activate_layer_state_clamped(lstate, layer_num) ==
    IF layer_num > NUM_LAYER THEN lstate
    ELSE [lstate EXCEPT ![IF layer_num < NUM_LAYER THEN layer_num ELSE NUM_LAYER - 1] = TRUE]

activate_layer_state(lstate, layer_num) ==
    IF layer_num >= NUM_LAYER THEN lstate
    ELSE [lstate EXCEPT ![layer_num] = TRUE]

deactivate_layer_state_all(lstate, layer_num) ==
    IF layer_num >= NUM_LAYER THEN lstate
    ELSE [l \in Layers |-> FALSE]

deactivate_layer_state(lstate, layer_num) ==
    IF layer_num >= NUM_LAYER THEN lstate
    ELSE [lstate EXCEPT ![layer_num] = FALSE]

NewKeyMap(action_map) ==
    /\ layers = action_map
    /\ layer_state = [l \in Layers |-> TRUE]
    /\ default_layer = 0
    /\ layer_cache = [r \in Rows |-> [c \in Cols |-> 0]]

GetAction(row, col, pressed) ==
    LET res == get_action_result(layers, layer_state, layer_cache, row, col, pressed)
    IN  /\ layer_cache' = get_action_cache(layers, layer_state, layer_cache, row, col, pressed)
        /\ result' = res
        /\ op' = [kind |-> "get_action", row |-> row, col |-> col,
                  pressed |-> pressed, layer_num |-> 0]
        /\ surfaced' = IF ~pressed /\ res.kind = "Key"
                       THEN [surfaced EXCEPT ![row][col] = res]
                       ELSE surfaced
        /\ UNCHANGED <<layers, layer_state, default_layer>>
        /\ UNCHANGED <<encVars, phVars, taskVars>>

ActivateLayer(layer_num) ==
    /\ layer_state' = activate_layer_state(layer_state, layer_num)
    /\ result' = Unit
    /\ op' = [kind |-> "activate_layer", row |-> 0, col |-> 0,
              pressed |-> FALSE, layer_num |-> layer_num]
    /\ UNCHANGED <<layers, default_layer, layer_cache, surfaced>>
    /\ UNCHANGED <<encVars, phVars, taskVars>>

DeactivateLayer(layer_num) ==
    /\ layer_state' = deactivate_layer_state(layer_state, layer_num)
    /\ result' = Unit
    /\ op' = [kind |-> "deactivate_layer", row |-> 0, col |-> 0,
              pressed |-> FALSE, layer_num |-> layer_num]
    /\ UNCHANGED <<layers, default_layer, layer_cache, surfaced>>
    /\ UNCHANGED <<encVars, phVars, taskVars>>

InitEncoderIdle ==
    /\ state = 0
    /\ phase = "DefaultPhase"
    /\ samples = <<>>

InitPhaseIdle ==
    classified = <<>>

(* Number of rotary encoders, each with its own run task. *)
NumEncoders ==
    2

Encoders == 1 .. NumEncoders

(* A run task before its first poll: suspended at the top of the loop,     *)
(* its encoder as RotaryEncoder::new leaves it.  row and col are the       *)
(* locals of the loop body.                                                *)
NewTask == [pc |-> "wait", state |-> 0, row |-> 0, col |-> 0]

InitTasksIdle ==
    /\ async_matrix = FALSE
    /\ task = [e \in Encoders |-> NewTask]
    /\ queue = <<>>
    /\ sent = [e \in Encoders |-> <<>>]
    /\ dirs = [e \in Encoders |-> <<>>]

InitKeyMap ==
    /\ \E m \in ActionMaps : NewKeyMap(ActionMapOf(m))
    /\ op = [kind |-> "new", row |-> 0, col |-> 0, pressed |-> FALSE, layer_num |-> 0]
    /\ result = Unit
    /\ surfaced = [r \in Rows |-> [c \in Cols |-> Nothing]]
    /\ InitEncoderIdle
    /\ InitPhaseIdle
    /\ InitTasksIdle

NextKeyMap ==
    \/ \E row \in Rows, col \in Cols, pressed \in BOOLEAN : GetAction(row, col, pressed)
    \/ \E layer_num \in LayerNums : ActivateLayer(layer_num)
    \/ \E layer_num \in LayerNums : DeactivateLayer(layer_num)

SpecKeyMap == InitKeyMap /\ [][NextKeyMap]_vars

(***************************************************************************)
(* RotaryEncoder                                                           *)
(***************************************************************************)

(* Number of update calls followed in one behaviour. *)
MaxSamples ==
    3

(* What InputPin::is_low gives: Ok(true), Ok(false) or Err(_). *)
PinReads == {"low", "high", "err"}

(* The classifiers held: DefaultPhase (RotaryEncoder::new) or a policy     *)
(* substituted through with_phase, here the default table with the two     *)
(* directions exchanged.                                                   *)
PhaseKinds == {"DefaultPhase", "ReversedPhase"}

DefaultPhase_direction_0111_1011(s) ==
    IF s \in {1, 11, 8, 14} THEN "Clockwise"
    ELSE IF s \in {2, 4, 7, 13} THEN "CounterClockwise"
    ELSE "None"

DefaultPhase_direction_without_1000(s) ==
    IF s \in {1, 7, 14} THEN "Clockwise"
    ELSE IF s \in {2, 4, 11, 13} THEN "CounterClockwise"
    ELSE "None"

DefaultPhase_direction(s) ==
    IF s \in {1, 7, 8, 14} THEN "Clockwise"
    ELSE IF s \in {2, 4, 11, 13} THEN "CounterClockwise"
    ELSE "None"

ReversedPhase_direction(s) ==
    IF s \in {1, 7, 8, 14} THEN "CounterClockwise"
    ELSE IF s \in {2, 4, 11, 13} THEN "Clockwise"
    ELSE "None"

(* self.phase.direction(s) *)
direction(ph, s) ==
    IF ph = "DefaultPhase" THEN DefaultPhase_direction(s) ELSE ReversedPhase_direction(s)

(* s |= w on a u8, w a single bit *)
BitOr(s, w) ==
    IF (s \div w) % 2 = 1 THEN s ELSE (s + w) % 256

(* The value of s when update reaches its last two lines: the old state   *)
(* masked with 0b11, bit 2 set when A is low, bit 3 set when B is low.     *)
update_code_swapped(st, a, b) ==
    LET s0 == st % 4
        s1 == IF a = "low" THEN BitOr(s0, 8) ELSE s0
    IN  IF b = "low" THEN BitOr(s1, 4) ELSE s1

update_code(st, a, b) ==
    LET s0 == st % 4
        s1 == IF a = "low" THEN BitOr(s0, 4) ELSE s0
    IN  IF b = "low" THEN BitOr(s1, 8) ELSE s1

(* self.state after update *)
update_state_unshifted(st, a, b) ==
    IF a = "err" THEN st
    ELSE IF b = "err" THEN st
    ELSE update_code(st, a, b)

update_state_partial(st, a, b) ==
    IF a = "err" THEN st
    ELSE update_code(st, a, b) \div 4

update_state(st, a, b) ==
    IF a = "err" THEN st
    ELSE IF b = "err" THEN st
    ELSE update_code(st, a, b) \div 4

(* The code update hands to self.phase.direction, -1 when it returns       *)
(* before calling it.                                                      *)
update_classified(st, a, b) ==
    IF a = "err" THEN -1
    ELSE IF b = "err" THEN -1
    ELSE update_code(st, a, b)

(* The Direction update returns. *)
update_result(ph, st, a, b) ==
    IF a = "err" THEN "None"
    ELSE IF b = "err" THEN "None"
    ELSE direction(ph, update_code(st, a, b))

NewRotaryEncoder(ph) ==
    /\ state = 0
    /\ phase = ph

Update(a, b) ==
    /\ Len(samples) < MaxSamples
    /\ state' = update_state(state, a, b)
    /\ samples' = Append(samples, [a |-> a, b |-> b,
                                   code |-> update_classified(state, a, b),
                                   outcome |-> update_result(phase, state, a, b)])
    /\ UNCHANGED phase
    /\ UNCHANGED <<kmVars, phVars, taskVars>>

InitKeyMapIdle ==
    /\ NewKeyMap([l \in Layers |-> [r \in Rows |-> [c \in Cols |-> No]]])
    /\ op = [kind |-> "new", row |-> 0, col |-> 0, pressed |-> FALSE, layer_num |-> 0]
    /\ result = Unit
    /\ surfaced = [r \in Rows |-> [c \in Cols |-> Nothing]]

InitDecoder ==
    /\ \E ph \in PhaseKinds : NewRotaryEncoder(ph)
    /\ samples = <<>>
    /\ InitKeyMapIdle
    /\ InitPhaseIdle
    /\ InitTasksIdle

NextDecoder ==
    \E a \in PinReads, b \in PinReads : Update(a, b)

SpecDecoder == InitDecoder /\ [][NextDecoder]_vars

(***************************************************************************)
(* DefaultPhase::direction on its own                                      *)
(***************************************************************************)

(* Number of direction calls followed in one behaviour. *)
MaxCalls ==
    2

(* The 4-bit codes, the values update passes to the classifier. *)
Codes == 0 .. 15

Classify(s) ==
    /\ Len(classified) < MaxCalls
    /\ classified' = Append(classified, [s |-> s, outcome |-> DefaultPhase_direction(s)])
    /\ UNCHANGED <<kmVars, encVars, taskVars>>

InitPhase ==
    /\ classified = <<>>
    /\ InitKeyMapIdle
    /\ InitEncoderIdle
    /\ InitTasksIdle

NextPhase ==
    \E s \in Codes : Classify(s)

SpecPhase == InitPhase /\ [][NextPhase]_vars

(***************************************************************************)
(* RotaryEncoder::run, one task per encoder, and KEY_EVENT_CHANNEL         *)
(***************************************************************************)

(* Capacity of KEY_EVENT_CHANNEL. *)
QueueCap ==
    2

(* Number of detents (update calls returning a direction) followed in one  *)
(* behaviour, over all encoders; after them the pins only give None.       *)
MaxDetents ==
    2

(* The positions each encoder was constructed with. *)
clockwise_pos(e) == <<e - 1, 0>>

counter_clockwise_pos(e) == <<e - 1, 1>>

(* let (row, col) = match direction { ... } *)
run_position_exchanged(e, dir) ==
    IF dir = "Clockwise" THEN counter_clockwise_pos(e) ELSE clockwise_pos(e)

run_position(e, dir) ==
    IF dir = "Clockwise" THEN clockwise_pos(e) ELSE counter_clockwise_pos(e)

(* KeyEvent { row, col, pressed: true } *)
press_event(row, col) ==
    [row |-> row, col |-> col, pressed |-> TRUE]

(* KeyEvent { row, col, pressed: false } *)
release_event_pressed(row, col) ==
    [row |-> row, col |-> col, pressed |-> TRUE]

release_event(row, col) ==
    [row |-> row, col |-> col, pressed |-> FALSE]

Tagged(ev, e) ==
    [row |-> ev.row, col |-> ev.col, pressed |-> ev.pressed, src |-> e]

Detents == LET RECURSIVE Sum(_)
               Sum(n) == IF n = 0 THEN 0 ELSE Len(dirs[n]) + Sum(n - 1)
           IN  Sum(NumEncoders)

(* KEY_EVENT_CHANNEL.send(ev) by task e completing. *)
Emit(e, ev) ==
    /\ queue' = Append(queue, Tagged(ev, e))
    /\ sent' = [sent EXCEPT ![e] = Append(@, ev)]

(* The task is woken at the top of the loop (an edge on a pin with         *)
(* async_matrix, the 20 ms timer without), calls update with pin readings  *)
(* a and b, and runs on to its next await: back to the top on None,        *)
(* else through the send of the press, which completes at once when the    *)
(* channel has room, to the 10 ms timer.                                   *)
Wake(e, a, b) ==
    LET t   == task[e]
        dir == update_result("DefaultPhase", t.state, a, b)
        st  == update_state(t.state, a, b)
        pos == run_position(e, dir)
    IN  /\ t.pc = "wait"
        /\ dir # "None" => Detents < MaxDetents
        /\ IF dir = "None"
           THEN /\ task' = [task EXCEPT ![e].state = st]
                /\ UNCHANGED <<queue, sent, dirs>>
           ELSE /\ dirs' = [dirs EXCEPT ![e] = Append(@, dir)]
                /\ IF Len(queue) < QueueCap
                   THEN /\ Emit(e, press_event(pos[1], pos[2]))
                        /\ task' = [task EXCEPT ![e] =
                                       [pc |-> "delay", state |-> st, row |-> pos[1],
                                        col |-> pos[2]]]
                   ELSE /\ task' = [task EXCEPT ![e] =
                                       [pc |-> "send_press", state |-> st, row |-> pos[1],
                                        col |-> pos[2]]]
                        /\ UNCHANGED <<queue, sent>>
        /\ UNCHANGED async_matrix
        /\ UNCHANGED <<kmVars, encVars, phVars>>

(* The send of the press, suspended on a full channel, completes. *)
SendPress(e) ==
    /\ task[e].pc = "send_press"
    /\ Len(queue) < QueueCap
    /\ Emit(e, press_event(task[e].row, task[e].col))
    /\ task' = [task EXCEPT ![e].pc = "delay"]
    /\ UNCHANGED <<async_matrix, dirs>>
    /\ UNCHANGED <<kmVars, encVars, phVars>>

(* The 10 ms timer fires; the send of the release completes at once when   *)
(* the channel has room and the task is back at the top of the loop.       *)
Delay_without_release(e) ==
    /\ task[e].pc = "delay"
    /\ task' = [task EXCEPT ![e] = [@ EXCEPT !.pc = "wait", !.row = 0, !.col = 0]]
    /\ UNCHANGED <<async_matrix, dirs, queue, sent>>
    /\ UNCHANGED <<kmVars, encVars, phVars>>

Delay(e) ==
    /\ task[e].pc = "delay"
    /\ IF Len(queue) < QueueCap
       THEN /\ Emit(e, release_event(task[e].row, task[e].col))
            /\ task' = [task EXCEPT ![e] = [@ EXCEPT !.pc = "wait", !.row = 0, !.col = 0]]
       ELSE /\ task' = [task EXCEPT ![e].pc = "send_release"]
            /\ UNCHANGED <<queue, sent>>
    /\ UNCHANGED <<async_matrix, dirs>>
    /\ UNCHANGED <<kmVars, encVars, phVars>>

(* The send of the release, suspended on a full channel, completes. *)
SendRelease(e) ==
    /\ task[e].pc = "send_release"
    /\ Len(queue) < QueueCap
    /\ Emit(e, release_event(task[e].row, task[e].col))
    /\ task' = [task EXCEPT ![e] = [@ EXCEPT !.pc = "wait", !.row = 0, !.col = 0]]
    /\ UNCHANGED <<async_matrix, dirs>>
    /\ UNCHANGED <<kmVars, encVars, phVars>>

(* The consumer of KEY_EVENT_CHANNEL takes the oldest event. *)
Receive ==
    /\ queue # <<>>
    /\ queue' = Tail(queue)
    /\ UNCHANGED <<async_matrix, task, sent, dirs>>
    /\ UNCHANGED <<kmVars, encVars, phVars>>

InitTasks ==
    /\ async_matrix \in BOOLEAN
    /\ task = [e \in Encoders |-> NewTask]
    /\ queue = <<>>
    /\ sent = [e \in Encoders |-> <<>>]
    /\ dirs = [e \in Encoders |-> <<>>]
    /\ InitKeyMapIdle
    /\ InitEncoderIdle
    /\ InitPhaseIdle

NextTasks ==
    \/ \E e \in Encoders, a \in PinReads, b \in PinReads : Wake(e, a, b)
    \/ \E e \in Encoders : SendPress(e)
    \/ \E e \in Encoders : Delay(e)
    \/ \E e \in Encoders : SendRelease(e)
    \/ Receive

SpecTasks == InitTasks /\ [][NextTasks]_vars

(***************************************************************************)
(* One run task, watched under fair scheduling, sharing KEY_EVENT_CHANNEL  *)
(* with other producers (the run tasks of other encoders among them).      *)
(***************************************************************************)

(* The task that is watched. *)
Watched == 1

WakeAny(e) ==
    \E a \in PinReads, b \in PinReads : Wake(e, a, b)

(* The send of another producer completes. *)
OtherSend ==
    /\ Len(queue) < QueueCap
    /\ queue' = Append(queue, [row |-> NumEncoders, col |-> 0, pressed |-> TRUE, src |-> 0])
    /\ UNCHANGED <<async_matrix, task, sent, dirs>>
    /\ UNCHANGED <<kmVars, encVars, phVars>>

NextTap ==
    \/ WakeAny(Watched)
    \/ SendPress(Watched)
    \/ Delay(Watched)
    \/ SendRelease(Watched)
    \/ OtherSend
    \/ Receive

(* Fair scheduling: a timer that was set fires (the 10 ms one, and the     *)
(* 20 ms one of the build without async_matrix; an edge on a pin is up to  *)
(* whoever turns the encoder), a send that finds room again and again      *)
(* completes, and the consumer keeps taking events.  Nothing is assumed    *)
(* of the other producers.                                                 *)
FairTap ==
    /\ WF_vars(~async_matrix /\ WakeAny(Watched))
    /\ WF_vars(Delay(Watched))
    /\ SF_vars(SendPress(Watched))
    /\ SF_vars(SendRelease(Watched))
    /\ WF_vars(Receive)

SpecTapFair == InitTasks /\ [][NextTap]_vars /\ FairTap

(***************************************************************************)
(* Claims about KeyMap, checked under SpecKeyMap.                          *)
(***************************************************************************)

IsRelease(o) == o.kind = "get_action" /\ ~o.pressed

IsPress(o) == o.kind = "get_action" /\ o.pressed

(* C1: a release at (row, col) returns the action of the highest-declared- *)
(* index layer whose own layer_state flag is true and whose action there   *)
(* is neither Transparent nor No, and No when there is no such layer.      *)
C1_ReleaseReturnsTopActiveLayer ==
    IsRelease(op) =>
        LET cands == {l \in Layers : /\ layer_state[l]
                                     /\ layers[l][op.row][op.col] # Transparent
                                     /\ layers[l][op.row][op.col] # No}
            top   == CHOOSE l \in cands : \A k \in cands : k <= l
        IN  result = IF cands = {} THEN No ELSE layers[top][op.row][op.col]

(* C2: a press at (row, col) returns the concrete action that the last     *)
(* release surfacing one at (row, col) returned, whatever happened in      *)
(* between.                                                                *)
C2_PressReturnsSurfacedAction ==
    (IsPress(op) /\ surfaced[op.row][op.col] # Nothing) =>
        result = surfaced[op.row][op.col]

(* C3: a press returns exactly layers[layer_cache[row][col]][row][col],    *)
(* whatever the layer_state flags are, and changes none of layer_cache,    *)
(* layer_state, layers and default_layer.                                  *)
C3_PressReadsCacheOnly ==
    [][IsPress(op') =>
          /\ result' = layers[layer_cache[op'.row][op'.col]][op'.row][op'.col]
          /\ UNCHANGED <<layer_cache, layer_state, layers, default_layer>>]_vars

(* A press served from a non-zero cache entry whose flag is now false. *)
C3_Witness ==
    /\ IsPress(op)
    /\ layer_cache[op.row][op.col] # 0
    /\ ~layer_state[layer_cache[op.row][op.col]]
    /\ result.kind = "Key"

(* C4: a release that returns a concrete action found at scan position p   *)
(* (the action Key(l) is the one of layer l, reached at p = NUM_LAYER-1-l) *)
(* writes p into layer_cache[row][col] and nothing else into the cache;    *)
(* a later press there returns layers[p][row][col]; and with every layer   *)
(* active, layer 0 concrete and all layers above it Transparent, a release *)
(* returns layer 0's action and caches layer 0's scan position.            *)
C4_ReleaseCachesScanPosition ==
    /\ [][(IsRelease(op') /\ result'.kind = "Key") =>
             layer_cache' = [layer_cache EXCEPT ![op'.row][op'.col] =
                                                   NUM_LAYER - 1 - result'.code]]_vars
    /\ []((IsPress(op) /\ surfaced[op.row][op.col] # Nothing) =>
             result = layers[NUM_LAYER - 1 - surfaced[op.row][op.col].code][op.row][op.col])
    /\ []((/\ IsRelease(op)
           /\ \A l \in Layers : layer_state[l]
           /\ layers[0][op.row][op.col] = Key(0)
           /\ \A l \in Layers \ {0} : layers[l][op.row][op.col] = Transparent) =>
             /\ result = Key(0)
             /\ layer_cache[op.row][op.col] = NUM_LAYER - 1)

(* A press after a release that found layer 0's action below a Transparent *)
(* top layer: the cache holds the last scan position, another entry is 0.  *)
C4_Witness ==
    /\ IsPress(op)
    /\ surfaced[op.row][op.col] = Key(0)
    /\ layer_cache[op.row][op.col] = NUM_LAYER - 1
    /\ layers[NUM_LAYER - 1][op.row][op.col] = Transparent
    /\ result = Transparent
    /\ \E r \in Rows, c \in Cols : layer_cache[r][c] # layer_cache[op.row][op.col]

(* C5: a release whose scan finds no concrete action returns No and leaves *)
(* the whole cache unchanged; a release changes the cache only when it     *)
(* returns a concrete action; a release never returns Transparent.         *)
C5_ExhaustedReleaseIsNo ==
    [][IsRelease(op') =>
          /\ result' # Transparent
          /\ (layer_cache' # layer_cache => result'.kind = "Key")
          /\ (result' = No => layer_cache' = layer_cache)
          /\ ((\A p \in Layers :
                  \/ ~layer_state[p]
                  \/ layers[NUM_LAYER - 1 - p][op'.row][op'.col] \in {Transparent, No}) =>
                 /\ result' = No
                 /\ layer_cache' = layer_cache)]_vars

(* A release that returned No at a position whose cache entry was written  *)
(* before, with a No cell among the layers scanned.                        *)
C5_Witness ==
    /\ IsRelease(op)
    /\ result = No
    /\ layer_cache[op.row][op.col] # 0
    /\ surfaced[op.row][op.col] # Nothing
    /\ \E p \in Layers : layer_state[p] /\ layers[NUM_LAYER - 1 - p][op.row][op.col] = No

(* C6: activate_layer and deactivate_layer with layer_num >= NUM_LAYER     *)
(* change nothing, return nothing, and every get_action gives afterwards   *)
(* what it would have given before.                                        *)
C6_OutOfRangeLayerIsNoOp ==
    [][(op'.kind \in {"activate_layer", "deactivate_layer"} /\ op'.layer_num >= NUM_LAYER) =>
          /\ UNCHANGED <<layer_state, layer_cache, layers, default_layer>>
          /\ result' = Unit
          /\ \A row \in Rows, col \in Cols, pressed \in BOOLEAN :
                /\ get_action_result(layers', layer_state', layer_cache', row, col, pressed)
                     = get_action_result(layers, layer_state, layer_cache, row, col, pressed)
                /\ get_action_cache(layers', layer_state', layer_cache', row, col, pressed)
                     = get_action_cache(layers, layer_state, layer_cache, row, col, pressed)]_vars

(* activate_layer(NUM_LAYER) called while the last layer is inactive. *)
C6_Witness ==
    /\ op.kind = "activate_layer"
    /\ op.layer_num = NUM_LAYER
    /\ ~layer_state[NUM_LAYER - 1]

(* C7: an in-range activate_layer(i) sets exactly layer_state[i] to true,  *)
(* an in-range deactivate_layer(i) sets exactly layer_state[i] to false,   *)
(* both leave the cache, default_layer and layers alone; get_action never  *)
(* changes layer_state; nothing changes layers or default_layer.           *)
C7_OnlyLayerCallsChangeLayerState ==
    [][/\ (op'.kind = "activate_layer" /\ op'.layer_num < NUM_LAYER) =>
             /\ layer_state' = [layer_state EXCEPT ![op'.layer_num] = TRUE]
             /\ UNCHANGED <<layer_cache, default_layer, layers>>
       /\ (op'.kind = "deactivate_layer" /\ op'.layer_num < NUM_LAYER) =>
             /\ layer_state' = [layer_state EXCEPT ![op'.layer_num] = FALSE]
             /\ UNCHANGED <<layer_cache, default_layer, layers>>
       /\ (op'.kind = "get_action" => layer_state' = layer_state)
       /\ (layer_state' # layer_state =>
             op'.kind \in {"activate_layer", "deactivate_layer"})
       /\ layers' = layers
       /\ default_layer' = default_layer]_vars

(* deactivate_layer(i) took effect while another layer stayed active and   *)
(* a cache entry was non-zero.                                             *)
C7_Witness ==
    /\ op.kind = "deactivate_layer"
    /\ op.layer_num < NUM_LAYER
    /\ ~layer_state[op.layer_num]
    /\ \E l \in Layers : layer_state[l]
    /\ \E r \in Rows, c \in Cols : layer_cache[r][c] # 0

(***************************************************************************)
(* Claims about RotaryEncoder::update, checked under SpecDecoder.          *)
(***************************************************************************)

SampleOk(smp) == smp.a # "err" /\ smp.b # "err"

(* The raw 2-bit reading: bit 0 is A-is-low, bit 1 is B-is-low. *)
Reading(smp) ==
    (IF smp.a = "low" THEN 1 ELSE 0) + 2 * (IF smp.b = "low" THEN 1 ELSE 0)

(* The reading of the last successful sampling among the first n, else 0. *)
LastReading(n) ==
    LET ok == {k \in 1 .. n : SampleOk(samples[k])}
    IN  IF ok = {} THEN 0
        ELSE Reading(samples[CHOOSE k \in ok : \A j \in ok : j <= k])

(* C8: the history register is the raw reading of the most recent          *)
(* successful sampling, 0 if there was none; and the low two bits of the   *)
(* code built at a successful sampling are the reading of the successful   *)
(* sampling before it.                                                     *)
C8_HistoryIsLastReading ==
    /\ state = LastReading(Len(samples))
    /\ \A k \in 1 .. Len(samples) :
          SampleOk(samples[k]) => samples[k].code % 4 = LastReading(k - 1)

(* Two successful samplings with different readings around a failed one. *)
C8_Witness ==
    /\ Len(samples) = 3
    /\ SampleOk(samples[1]) /\ Reading(samples[1]) = 3
    /\ ~SampleOk(samples[2])
    /\ SampleOk(samples[3]) /\ Reading(samples[3]) = 1
    /\ state = 1

C10_CodeIsReadingOverHistory ==
    [][(Len(samples') = Len(samples) + 1 /\ SampleOk(samples'[Len(samples')])) =>
          LET smp  == samples'[Len(samples')]
              code == 4 * Reading(smp) + state
          IN  /\ state \in 0 .. 3
              /\ code \in 0 .. 15
              /\ smp.code = code
              /\ smp.outcome = direction(phase, code)]_vars

(* Code 0b0111 (history 3, A low, B high) classified by DefaultPhase. *)
C10_Witness ==
    /\ Len(samples) >= 2
    /\ phase = "DefaultPhase"
    /\ samples[Len(samples)].code = 7
    /\ samples[Len(samples)].a = "low"
    /\ samples[Len(samples)].b = "high"
    /\ samples[Len(samples)].outcome = "Clockwise"

(***************************************************************************)
(* Claims about DefaultPhase::direction, checked under SpecPhase.          *)
(***************************************************************************)

(* C11: the default classifier answers every 4-bit code: Clockwise for     *)
(* 0001, 0111, 1000, 1110, CounterClockwise for 0010, 0100, 1011, 1101,    *)
(* None for the other eight; two calls with the same code agree.           *)
C11_DefaultTable ==
    /\ \A k \in 1 .. Len(classified) :
          /\ classified[k].s \in {1, 7, 8, 14} => classified[k].outcome = "Clockwise"
          /\ classified[k].s \in {2, 4, 11, 13} => classified[k].outcome = "CounterClockwise"
          /\ classified[k].s \in {0, 3, 5, 6, 9, 10, 12, 15} => classified[k].outcome = "None"
          /\ classified[k].outcome \in {"Clockwise", "CounterClockwise", "None"}
    /\ \A j, k \in 1 .. Len(classified) :
          classified[j].s = classified[k].s => classified[j].outcome = classified[k].outcome

(* 0111 classified Clockwise, then 1011 classified CounterClockwise. *)
C11_Witness ==
    /\ Len(classified) = 2
    /\ classified[1] = [s |-> 7, outcome |-> "Clockwise"]
    /\ classified[2] = [s |-> 11, outcome |-> "CounterClockwise"]

(***************************************************************************)
(* Further claims about KeyMap, checked under SpecKeyMap.                  *)
(***************************************************************************)

(* C14: every layer_cache entry is a valid layer index (< NUM_LAYER), so   *)
(* the layers[layer as usize] of a press is always in range.               *)
C14_CacheHoldsLayerIndex ==
    \A r \in Rows, c \in Cols :
        /\ layer_cache[r][c] \in Layers
        /\ layer_cache[r][c] < NUM_LAYER

(* A press served from the largest index a release can cache. *)
C14_Witness ==
    /\ IsPress(op)
    /\ layer_cache[op.row][op.col] = NUM_LAYER - 1
    /\ result = layers[NUM_LAYER - 1][op.row][op.col]

(* C15: the release scan uses the same index for the layer_state lookup    *)
(* and for the value cached: when a release caches v, layer_state[v] is    *)
(* true; v is the first index of the scan whose flag is true and whose     *)
(* candidate is concrete, so a candidate whose lookup index has a false    *)
(* flag never supplies the result and never stops the scan.                *)
C15_FlagAndCacheShareIndex ==
    [][IsRelease(op') =>
          LET v == layer_cache'[op'.row][op'.col]
              Stops(p) == /\ layer_state[p]
                          /\ layers[NUM_LAYER - 1 - p][op'.row][op'.col] \notin {Transparent, No}
          IN  /\ result'.kind = "Key" =>
                    /\ layer_state[v]
                    /\ Stops(v)
                    /\ \A p \in Layers : p < v => ~Stops(p)
                    /\ result' = layers[NUM_LAYER - 1 - v][op'.row][op'.col]
              /\ result'.kind # "Key" =>
                    /\ \A p \in Layers : ~Stops(p)
                    /\ layer_cache' = layer_cache]_vars

(* A release that passed over the concrete top layer because              *)
(* layer_state[0] is false, and cached a later index.                      *)
C15_Witness ==
    /\ IsRelease(op)
    /\ ~layer_state[0]
    /\ layers[NUM_LAYER - 1][op.row][op.col] = Key(NUM_LAYER - 1)
    /\ result = Key(0)
    /\ layer_cache[op.row][op.col] = NUM_LAYER - 1
    /\ layer_state[NUM_LAYER - 1]

(* C18: construction leaves every layer active, every cache entry 0 and    *)
(* default_layer 0; at a position where no release has returned a concrete *)
(* action yet the cache entry is still 0 and a press returns layer 0's     *)
(* action, whatever was done elsewhere.                                    *)
C18_UntouchedPositionPressesLayer0 ==
    /\ op.kind = "new" =>
          /\ \A l \in Layers : layer_state[l]
          /\ \A r \in Rows, c \in Cols : layer_cache[r][c] = 0
          /\ default_layer = 0
    /\ \A r \in Rows, c \in Cols : surfaced[r][c] = Nothing => layer_cache[r][c] = 0
    /\ (IsPress(op) /\ surfaced[op.row][op.col] = Nothing) =>
          result = layers[0][op.row][op.col]

(* A press at a position never resolved on release, after a release at     *)
(* another position moved that one's cache entry and a layer was           *)
(* deactivated.                                                            *)
C18_Witness ==
    /\ IsPress(op)
    /\ surfaced[op.row][op.col] = Nothing
    /\ result = Key(0)
    /\ \E r \in Rows, c \in Cols : layer_cache[r][c] # 0
    /\ \E l \in Layers : ~layer_state[l]

(***************************************************************************)
(* Further claim about RotaryEncoder::update, checked under SpecDecoder.   *)
(***************************************************************************)

(* C17: with DefaultPhase a successful sampling returns a direction        *)
(* exactly when one of the two bits of the reading differs from the        *)
(* previous successful reading (0 at first).  Readings written B-is-low,   *)
(* A-is-low: a step along 00 -> 10 -> 11 -> 01 -> 00 is Clockwise, a step  *)
(* along the reverse cycle CounterClockwise, no change or a change of      *)
(* both bits None.                                                         *)
C17_OneBitStepGivesDirection ==
    phase = "DefaultPhase" =>
        \A k \in 1 .. Len(samples) :
            SampleOk(samples[k]) =>
                LET prev    == LastReading(k - 1)
                    cur     == Reading(samples[k])
                    Next(r) == IF r = 0 THEN 2 ELSE IF r = 2 THEN 3 ELSE IF r = 3 THEN 1 ELSE 0
                    changed == (IF prev % 2 # cur % 2 THEN 1 ELSE 0)
                               + (IF prev \div 2 # cur \div 2 THEN 1 ELSE 0)
                IN  /\ samples[k].outcome # "None" <=> changed = 1
                    /\ samples[k].outcome = "Clockwise" <=> cur = Next(prev)
                    /\ samples[k].outcome = "CounterClockwise" <=> prev = Next(cur)

(* 00 -> 10 Clockwise, 10 -> 01 (both bits) None, 01 -> 11 CounterClockwise. *)
C17_Witness ==
    /\ phase = "DefaultPhase"
    /\ Len(samples) = 3
    /\ Reading(samples[1]) = 2 /\ samples[1].outcome = "Clockwise"
    /\ Reading(samples[2]) = 1 /\ samples[2].outcome = "None"
    /\ Reading(samples[3]) = 3 /\ samples[3].outcome = "CounterClockwise"
    /\ \A k \in 1 .. 3 : SampleOk(samples[k])

(***************************************************************************)
(* Claims about RotaryEncoder::run, checked under SpecTasks and            *)
(* SpecTapFair.                                                            *)
(***************************************************************************)

(* C12: every update that returned a direction causes two emissions, the   *)
(* press and then the release, both at the clockwise position for          *)
(* Clockwise and at the counter-clockwise position for CounterClockwise;   *)
(* an update that returned None causes none.  So a task has emitted twice  *)
(* as many events as it has fully processed directions, plus one while the *)
(* release is pending.                                                     *)
C12_TwoEmissionsPerDirection ==
    \A e \in Encoders :
        LET done == Len(dirs[e]) - (IF task[e].pc = "wait" THEN 0 ELSE 1)
        IN  /\ Len(sent[e]) = 2 * done + (IF task[e].pc \in {"delay", "send_release"} THEN 1 ELSE 0)
            /\ \A k \in 1 .. Len(dirs[e]) :
                  LET pos == IF dirs[e][k] = "Clockwise"
                             THEN clockwise_pos(e) ELSE counter_clockwise_pos(e)
                  IN  /\ 2 * k - 1 <= Len(sent[e]) =>
                            sent[e][2 * k - 1] = [row |-> pos[1], col |-> pos[2], pressed |-> TRUE]
                      /\ 2 * k <= Len(sent[e]) =>
                            sent[e][2 * k] = [row |-> pos[1], col |-> pos[2], pressed |-> FALSE]

(* A task that fully processed a Clockwise, then sampled a                 *)
(* CounterClockwise and has its release pending: three emissions.          *)
C12_Witness ==
    \E e \in Encoders :
        /\ dirs[e] = <<"Clockwise", "CounterClockwise">>
        /\ Len(sent[e]) = 3
        /\ task[e].pc \in {"delay", "send_release"}
        /\ sent[e][3] = [row |-> e - 1, col |-> 1, pressed |-> TRUE]

(* The events of task e in the channel, oldest first, without their tag. *)
InQueue(e) ==
    LET RECURSIVE Pick(_)
        Pick(q) == IF q = <<>> THEN <<>>
                   ELSE IF Head(q).src = e
                        THEN <<[row |-> Head(q).row, col |-> Head(q).col,
                                pressed |-> Head(q).pressed]>> \o Pick(Tail(q))
                        ELSE Pick(Tail(q))
    IN  Pick(queue)

(* C13: with several tasks sending into the one channel, the events of     *)
(* each task alternate press, release, press, release, each release at the *)
(* position of the press before it; the channel holds them in the order    *)
(* sent (what is in the channel is the tail end of what the task sent);    *)
(* update is not called between a press and its release.                   *)
C13_PerEncoderAlternation ==
    /\ [](\A e \in Encoders :
            /\ \A k \in 1 .. Len(sent[e]) :
                  /\ sent[e][k].pressed = (k % 2 = 1)
                  /\ k % 2 = 0 => /\ sent[e][k].row = sent[e][k - 1].row
                                  /\ sent[e][k].col = sent[e][k - 1].col
            /\ LET q == InQueue(e)
               IN  /\ Len(q) <= Len(sent[e])
                   /\ q = SubSeq(sent[e], Len(sent[e]) - Len(q) + 1, Len(sent[e])))
    /\ [][\A e \in Encoders :
            (dirs'[e] # dirs[e] \/ task'[e].state # task[e].state) =>
                /\ task[e].pc = "wait"
                /\ Len(sent[e]) % 2 = 0
                /\ Len(dirs'[e]) <= Len(dirs[e]) + 1]_vars

(* The channel holds the press of task 1 and, behind it, an event of task  *)
(* 2, while the release of task 1 is still to be sent.                     *)
C13_Witness ==
    /\ Len(queue) = 2
    /\ queue[1].src = 1 /\ queue[1].pressed
    /\ queue[2].src = 2
    /\ Len(sent[1]) % 2 = 1

(* A press of task e is out and its release is not. *)
ReleasePending(e) ==
    task[e].pc \in {"delay", "send_release"}

(* Task e is back at the top of its loop and its last event is the release *)
(* paired with the press before it.                                        *)
TapDone(e) ==
    /\ task[e].pc = "wait"
    /\ Len(sent[e]) >= 2
    /\ Len(sent[e]) % 2 = 0
    /\ sent[e][Len(sent[e])] = [row |-> sent[e][Len(sent[e]) - 1].row,
                                col |-> sent[e][Len(sent[e]) - 1].col,
                                pressed |-> FALSE]

(* C16 as stated: under fair scheduling with a draining consumer every     *)
(* press of the task is followed by its release and the task is back at    *)
(* the top of the loop; the task never terminates; and it is suspended     *)
(* forever nowhere (the channel never stays full), so it is woken at the   *)
(* top of the loop again and again.                                        *)
C16_NeverSuspendedForever ==
    /\ ReleasePending(Watched) ~> TapDone(Watched)
    /\ [](task[Watched].pc \in {"wait", "send_press", "delay", "send_release"})
    /\ []<><<WakeAny(Watched)>>_vars

(* C16 amended: the same, but in the build with async_matrix the task may  *)
(* also stay suspended forever at the top of its loop, waiting for an edge *)
(* on a pin that never comes.  The 10 ms wait always ends, a send can      *)
(* proceed exactly when the channel has room.                              *)
C16_TapCompletes ==
    /\ ReleasePending(Watched) ~> TapDone(Watched)
    /\ (task[Watched].pc = "send_press") ~> (task[Watched].pc = "delay")
    /\ [](LET pc == task[Watched].pc
          IN  /\ pc \in {"wait", "send_press", "delay", "send_release"}
              /\ pc = "wait" => ENABLED WakeAny(Watched)
              /\ pc = "delay" => ENABLED Delay(Watched)
              /\ pc = "send_press" =>
                    (ENABLED SendPress(Watched) <=> Len(queue) < QueueCap)
              /\ pc = "send_release" =>
                    (ENABLED SendRelease(Watched) <=> Len(queue) < QueueCap))
    /\ (async_matrix \/ []<><<WakeAny(Watched)>>_vars)

(* The press of the task is out and its release is suspended on a channel  *)
(* that another producer filled.                                           *)
C16_Witness ==
    /\ task[Watched].pc = "send_release"
    /\ Len(queue) = QueueCap
    /\ Len(sent[Watched]) % 2 = 1
    /\ \E k \in 1 .. Len(queue) : queue[k].src = 0

====
